---- MODULE Spec2Model ----
(***************************************************************************)
(* Model of the two scripts of the repository:                             *)
(*   cue_generator.py          tracklist text  -> cue sheet text           *)
(*   postprocess_cue_tracks.py cue sheet text  -> per-track ffmpeg runs    *)
(* Python str values are TLA+ strings; a character is a string of length   *)
(* one, and s[i] is written Ch(s, i).  Python None is the empty tuple and  *)
(* a present value v is the one-element tuple <<v>>.                       *)
(***************************************************************************)
EXTENDS Integers, Sequences, FiniteSets, TLC

VARIABLES
    \* find_track_file (postprocess_cue_tracks.py)
    candidates, track_num, found, prev_found, match_pc,
    \* parse_input_file and the __main__ block (cue_generator.py)
    contents, ORDER_ARTIST_FIRST, line_no, track_counter, return_string,
    first_substring, minutes, seconds, gen_pc, out_file, emitted,
    \* parse_cue (postprocess_cue_tracks.py)
    cue_text, cue_lines, cue_pos, album, tracks, current_track, cue_pc,
    \* process (postprocess_cue_tracks.py)
    meta_tracks, dir_listing, alt_listing, dry_run, t_idx, resolved,
    ffmpeg_log, visited, proc_pc

match_vars == <<candidates, track_num, found, prev_found, match_pc>>
gen_vars   == <<contents, ORDER_ARTIST_FIRST, line_no, track_counter,
                return_string, first_substring, minutes, seconds, gen_pc,
                out_file, emitted>>
cue_vars   == <<cue_text, cue_lines, cue_pos, album, tracks, current_track,
                cue_pc>>
proc_vars  == <<meta_tracks, dir_listing, alt_listing, dry_run, t_idx,
                resolved, ffmpeg_log, visited, proc_pc>>
vars       == <<match_vars, gen_vars, cue_vars, proc_vars>>

(***************************************************************************)
(* Bounds of the model.                                                    *)
(***************************************************************************)
MaxCands    == 2   \* files in one directory listing
MaxTrackNum == 3   \* largest track number looked up
MaxLines    == 3   \* lines of a tracklist file
MaxFields   == 4   \* colon-separated fields of a generated timestamp token
MaxCueLines == 3   \* lines of a hand-written cue sheet
MaxTracks   == 2   \* tracks of the sheet handed to process

(***************************************************************************)
(* Python values and str methods.                                          *)
(***************************************************************************)
None == <<>>
Some(v) == <<v>>

Ch(s, i) == SubSeq(s, i, i)

Min(S) == CHOOSE x \in S : \A y \in S : x <= y

Digits == {"0", "1", "2", "3", "4", "5", "6", "7", "8", "9"}

DigitVal(c) ==
    CASE c = "0" -> 0 [] c = "1" -> 1 [] c = "2" -> 2 [] c = "3" -> 3
      [] c = "4" -> 4 [] c = "5" -> 5 [] c = "6" -> 6 [] c = "7" -> 7
      [] c = "8" -> 8 [] c = "9" -> 9

\* str.isspace() on one character (the ASCII whitespace of the inputs).
IsSpace(c) == c \in {" ", "\t", "\n", "\r", "\f"}

\* str.isdigit() on a whole, non-empty or empty, string of ASCII characters.
AllDigits(s) == \A i \in 1..Len(s) : Ch(s, i) \in Digits

RECURSIVE DigitsValue(_)
DigitsValue(s) ==
    IF s = "" THEN 0
    ELSE DigitsValue(SubSeq(s, 1, Len(s) - 1)) * 10 + DigitVal(Ch(s, Len(s)))

\* int(s) succeeds: an optional sign and at least one digit.  (int also
\* accepts surrounding whitespace and "_" between digits; parts produced by
\* split carry no whitespace, and "_" is not in the input alphabet.)
IntOk(s) ==
    LET body == IF s # "" /\ Ch(s, 1) \in {"+", "-"}
                THEN SubSeq(s, 2, Len(s)) ELSE s
    IN  body # "" /\ AllDigits(body)

IntOf(s) ==
    IF Ch(s, 1) = "-" THEN 0 - DigitsValue(SubSeq(s, 2, Len(s)))
    ELSE IF Ch(s, 1) = "+" THEN DigitsValue(SubSeq(s, 2, Len(s)))
    ELSE DigitsValue(s)

DigitChar(d) ==
    CASE d = 0 -> "0" [] d = 1 -> "1" [] d = 2 -> "2" [] d = 3 -> "3"
      [] d = 4 -> "4" [] d = 5 -> "5" [] d = 6 -> "6" [] d = 7 -> "7"
      [] d = 8 -> "8" [] d = 9 -> "9"

\* str(n) for an int.
RECURSIVE NatStr(_)
NatStr(n) == IF n < 10 THEN DigitChar(n) ELSE NatStr(n \div 10) \o DigitChar(n % 10)

Str(n) == IF n < 0 THEN "-" \o NatStr(0 - n) ELSE NatStr(n)

\* str.zfill(2) of a string without sign.
Zfill2(s) == IF Len(s) >= 2 THEN s ELSE IF Len(s) = 1 THEN "0" \o s ELSE "00"

\* f"{n:02d}"
Fmt02d(n) ==
    IF n < 0 THEN (IF n > -10 THEN "-" \o NatStr(0 - n) ELSE Str(n))
    ELSE Zfill2(NatStr(n))

StartsWith(s, p) == Len(s) >= Len(p) /\ SubSeq(s, 1, Len(p)) = p

\* str.find(sub, from) with 1-based positions; 0 when absent.
RECURSIVE Find(_, _, _)
Find(s, sub, from) ==
    IF from > Len(s) - Len(sub) + 1 THEN 0
    ELSE IF SubSeq(s, from, from + Len(sub) - 1) = sub THEN from
    ELSE Find(s, sub, from + 1)

\* sub in s
Contains(s, sub) == Find(s, sub, 1) # 0

\* str.split(sep) for a non-empty separator.
RECURSIVE Split(_, _)
Split(s, sep) ==
    LET i == Find(s, sep, 1)
    IN  IF i = 0 THEN <<s>>
        ELSE <<SubSeq(s, 1, i - 1)>> \o Split(SubSeq(s, i + Len(sep), Len(s)), sep)

\* str.lstrip(), str.rstrip(), str.strip()
RECURSIVE LStrip(_)
LStrip(s) ==
    IF s # "" /\ IsSpace(Ch(s, 1)) THEN LStrip(SubSeq(s, 2, Len(s))) ELSE s

RECURSIVE RStrip(_)
RStrip(s) ==
    IF s # "" /\ IsSpace(Ch(s, Len(s))) THEN RStrip(SubSeq(s, 1, Len(s) - 1)) ELSE s

Strip(s) == LStrip(RStrip(s))

\* str.strip('"')
RECURSIVE StripQuotes(_)
StripQuotes(s) ==
    IF s # "" /\ Ch(s, 1) = "\"" THEN StripQuotes(SubSeq(s, 2, Len(s)))
    ELSE IF s # "" /\ Ch(s, Len(s)) = "\"" THEN StripQuotes(SubSeq(s, 1, Len(s) - 1))
    ELSE s

\* All sequences over S of length at most n.
RECURSIVE SeqsUpTo(_, _)
SeqsUpTo(S, n) ==
    IF n = 0 THEN {<<>>}
    ELSE LET shorter == SeqsUpTo(S, n - 1)
         IN  shorter \cup {Append(q, x) : q \in {r \in shorter : Len(r) = n - 1}, x \in S}

\* A directory listing: no file name occurs twice.
Distinct(q) == \A i, j \in 1..Len(q) : i # j => q[i] # q[j]

(***************************************************************************)
(* postprocess_cue_tracks.py: TRACK_PREFIX_RE and find_track_file.         *)
(***************************************************************************)
\* A missing file (find_track_file returns None).  No directory entry has
\* the empty name.
NoFile == ""

\* Number of consecutive characters of s, from position from on, that lie
\* in chars.
RunLen(s, from, chars) ==
    Min({k \in from..(Len(s) + 1) : k = Len(s) + 1 \/ Ch(s, k) \notin chars}) - from

WhiteChars == {" ", "\t", "\n", "\r", "\f"}
SepChars   == {"-", "_", "."} \cup WhiteChars

\* TRACK_PREFIX_RE.match(name) is not None, for a name without line breaks:
\*   ^\s*        leading whitespace
\*   0*(\d{1,3}) the whole digit run: zeros, then a group of 1 to 3 digits
\*               (the group may take zeros back, so only the digits after
\*               the leading zeros are limited to 3)
\*   \s*[-_.\s]+ the next character is a separator
\*   \s*(.+)$    and at least one more character follows it
PrefixMatches(name) ==
    LET ws == RunLen(name, 1, WhiteChars)
        d  == RunLen(name, ws + 1, Digits)
        z  == RunLen(name, ws + 1, {"0"})
    IN  /\ d >= 1
        /\ d - z <= 3
        /\ Len(name) >= ws + d + 2
        /\ Ch(name, ws + d + 1) \in SepChars

\* int(m.group(1)): leading zeros of the run do not change the value.
PrefixNumber(name) ==
    LET ws == RunLen(name, 1, WhiteChars)
        d  == RunLen(name, ws + 1, Digits)
    IN  DigitsValue(SubSeq(name, ws + 1, ws + d))

\* The first loop's test on one candidate.
StartsWithNumber(name, n) == PrefixMatches(name) /\ PrefixNumber(name) = n

\* The second loop's test on one candidate.
HasPadded(name, n) == Contains(name, Fmt02d(n))

\* A mutation of find_track_file: the two loops swapped.
find_track_file_padded_first(cands, n) ==
    LET p1 == {i \in 1..Len(cands) : StartsWithNumber(cands[i], n)}
        p2 == {i \in 1..Len(cands) : HasPadded(cands[i], n)}
    IN  IF p2 # {} THEN cands[Min(p2)]
        ELSE IF p1 # {} THEN cands[Min(p1)]
        ELSE IF Len(cands) = 1 THEN cands[1]
        ELSE NoFile

\* find_track_file(tracks_dir, track_num, pattern), on the listing
\* cands = list(tracks_dir.glob(pattern)) in the order glob yields it.  The
\* second glob of line 134 lists the same directory again.
find_track_file(cands, n) ==
    LET p1 == {i \in 1..Len(cands) : StartsWithNumber(cands[i], n)}
        p2 == {i \in 1..Len(cands) : HasPadded(cands[i], n)}
    IN  IF p1 # {} THEN cands[Min(p1)]
        ELSE IF p2 # {} THEN cands[Min(p2)]
        ELSE IF Len(cands) = 1 /\ Len(cands) = 1 THEN cands[1]
        ELSE NoFile

\* File names a splitting tool leaves in a tracks directory.
FileNames ==
    {"02 - Song.wav", "01-intro.wav", "only.wav", "1 - a.wav", "01 - b.wav",
     "track01.wav", "010 - x.wav", "3_c.flac", "1234 - d.wav", " 2. e.mp3"}

Listings(n) == {q \in SeqsUpTo(FileNames, n) : Distinct(q)}

\* The listings that enumerate the same directory as q in another order.
Reorderings(q) ==
    {r \in [1..Len(q) -> {q[i] : i \in 1..Len(q)}] :
        \A i \in 1..Len(q) : \E j \in 1..Len(q) : r[j] = q[i]}

(***************************************************************************)
(* cue_generator.py                                                        *)
(***************************************************************************)
\* is_timestamp(string): every character is a digit or ":" (true of "").
is_timestamp(string) ==
    \A i \in 1..Len(string) : Ch(string, i) \in Digits \cup {":"}

\* A mutation of get_min_sec_from_timestamp: the hours of the 3-field form
\* are dropped and a fourth field is tolerated.
get_min_sec_from_timestamp_lax(timestamp_string) ==
    LET digits == Split(timestamp_string, ":")
    IN  IF Len(digits) = 2 THEN
            IF digits[1] = "" \/ digits[2] = "" THEN [ok |-> FALSE, exc |-> "ValueError"]
            ELSE [ok |-> TRUE, min |-> IntOf(digits[1]), sec |-> IntOf(digits[2])]
        ELSE IF Len(digits) >= 3 THEN
            IF digits[2] = "" \/ digits[3] = "" THEN [ok |-> FALSE, exc |-> "ValueError"]
            ELSE [ok |-> TRUE, min |-> IntOf(digits[2]), sec |-> IntOf(digits[3])]
        ELSE [ok |-> FALSE, exc |-> "Invalid timestamp"]

\* get_min_sec_from_timestamp(timestamp_string), on a string is_timestamp
\* accepts: its fields are digit runs, and int("") raises ValueError.
get_min_sec_from_timestamp(timestamp_string) ==
    LET digits == Split(timestamp_string, ":")
    IN  IF Len(digits) = 2 THEN
            IF ~IntOk(digits[1]) \/ ~IntOk(digits[2])
            THEN [ok |-> FALSE, exc |-> "ValueError"]
            ELSE [ok |-> TRUE, min |-> IntOf(digits[1]), sec |-> IntOf(digits[2])]
        ELSE IF Len(digits) = 3 THEN
            IF ~IntOk(digits[1]) \/ ~IntOk(digits[2]) \/ ~IntOk(digits[3])
            THEN [ok |-> FALSE, exc |-> "ValueError"]
            ELSE [ok |-> TRUE,
                  min |-> IntOf(digits[1]) * 60 + IntOf(digits[2]),
                  sec |-> IntOf(digits[3])]
        ELSE [ok |-> FALSE, exc |-> "Invalid timestamp"]

Last(q) == q[Len(q)]

\* get_string1(full_line): full_line.split(" - ")[0].split(":")[-1][3:]
get_string1(full_line) ==
    LET left == Split(full_line, " - ")[1]
        tail == Last(Split(left, ":"))
    IN  SubSeq(tail, 4, Len(tail))

\* get_string2(full_line): full_line.split(" - ")[1], or "UNKNOWN".
get_string2(full_line) ==
    LET parts == Split(full_line, " - ")
    IN  IF Len(parts) >= 2 THEN parts[2] ELSE "UNKNOWN"

\* Line 89: the album title line of the sheet.
SerializeTitle(title) == "TITLE \"" \o title \o "\"\n"

\* Lines 109-112: one track block of the sheet.
SerializeTrack(counter, title, artist, mins, secs) ==
    "  TRACK " \o Zfill2(Str(counter)) \o " AUDIO\n"
    \o "    TITLE \"" \o title \o "\"\n"
    \o "    PERFORMER \"" \o artist \o "\"\n"
    \o "    INDEX 01 " \o Zfill2(Str(mins)) \o ":" \o Zfill2(Str(secs)) \o "\n"

\* Line 88: the test for an album title line.
IsTitleLine(line) == StartsWith(line, "Title:") \/ StartsWith(line, "# Title:")

\* Line 97: line.split(" ")[0]
FirstSubstring(line) == Split(line, " ")[1]

\* A mutation of NextTrackCounter: the counter skips a number.
NextTrackCounterSkips(counter) == counter + 2

\* Line 114: track_counter += 1
NextTrackCounter(counter) == counter + 1

InLoop == gen_pc = "loop" /\ line_no <= Len(contents)

\* Lines 88-90 of parse_input_file.  emitted records what the serializer
\* was given, in order.
GenTitleLine ==
    /\ InLoop
    /\ LET line  == contents[line_no]
           title == Last(Split(line, "Title: "))
       IN  /\ IsTitleLine(line)
           /\ return_string' = return_string \o SerializeTitle(title)
           /\ emitted' = Append(emitted, [kind |-> "TITLE", title |-> title])
    /\ line_no' = line_no + 1
    /\ UNCHANGED <<contents, ORDER_ARTIST_FIRST, track_counter,
                   first_substring, minutes, seconds, gen_pc, out_file>>
    /\ UNCHANGED <<match_vars, cue_vars, proc_vars>>

\* Lines 93-94.
GenBlankLine ==
    /\ InLoop
    /\ ~IsTitleLine(contents[line_no])
    /\ contents[line_no] = ""
    /\ line_no' = line_no + 1
    /\ UNCHANGED <<contents, ORDER_ARTIST_FIRST, track_counter, return_string,
                   first_substring, minutes, seconds, gen_pc, out_file, emitted>>
    /\ UNCHANGED <<match_vars, cue_vars, proc_vars>>

\* Lines 97-114, the timestamp parsed.
GenTrackLine ==
    /\ InLoop
    /\ LET line == contents[line_no]
           fs   == FirstSubstring(line)
           s1   == get_string1(line)
           s2   == get_string2(line)
           artist == IF ORDER_ARTIST_FIRST THEN s1 ELSE s2
           title  == IF ORDER_ARTIST_FIRST THEN s2 ELSE s1
           ts   == get_min_sec_from_timestamp(fs)
       IN  /\ ~IsTitleLine(line) /\ line # ""
           /\ is_timestamp(fs)
           /\ ts.ok
           /\ first_substring' = fs
           /\ minutes' = ts.min
           /\ seconds' = ts.sec
           /\ return_string' = return_string
                \o SerializeTrack(track_counter, title, artist, ts.min, ts.sec)
           /\ emitted' = Append(emitted,
                [kind |-> "TRACK", number |-> track_counter, title |-> title,
                 performer |-> artist, minutes |-> ts.min, seconds |-> ts.sec])
    /\ track_counter' = NextTrackCounter(track_counter)
    /\ line_no' = line_no + 1
    /\ UNCHANGED <<contents, ORDER_ARTIST_FIRST, gen_pc, out_file>>
    /\ UNCHANGED <<match_vars, cue_vars, proc_vars>>

\* Lines 97-107, get_min_sec_from_timestamp raising: the exception leaves
\* parse_input_file, which returns nothing.
GenTrackLineRaises ==
    /\ InLoop
    /\ LET line == contents[line_no]
           fs   == FirstSubstring(line)
           ts   == get_min_sec_from_timestamp(fs)
       IN  /\ ~IsTitleLine(line) /\ line # ""
           /\ is_timestamp(fs)
           /\ ~ts.ok
           /\ first_substring' = fs
           /\ gen_pc' = ts.exc
    /\ UNCHANGED <<contents, ORDER_ARTIST_FIRST, line_no, track_counter,
                   return_string, minutes, seconds, out_file, emitted>>
    /\ UNCHANGED <<match_vars, cue_vars, proc_vars>>

\* Line 100 false: the line is neither a title, blank nor a track entry.
GenOtherLine ==
    /\ InLoop
    /\ LET line == contents[line_no]
       IN  /\ ~IsTitleLine(line) /\ line # ""
           /\ ~is_timestamp(FirstSubstring(line))
           /\ first_substring' = FirstSubstring(line)
    /\ line_no' = line_no + 1
    /\ UNCHANGED <<contents, ORDER_ARTIST_FIRST, track_counter, return_string,
                   minutes, seconds, gen_pc, out_file, emitted>>
    /\ UNCHANGED <<match_vars, cue_vars, proc_vars>>

\* Line 116, then lines 136-140 of the main block: the sheet is written.
GenReturnAndWrite ==
    /\ gen_pc = "loop"
    /\ line_no > Len(contents)
    /\ out_file' = Some(return_string)
    /\ gen_pc' = "written"
    /\ UNCHANGED <<contents, ORDER_ARTIST_FIRST, line_no, track_counter,
                   return_string, first_substring, minutes, seconds, emitted>>
    /\ UNCHANGED <<match_vars, cue_vars, proc_vars>>

\* Lines 141-143 of the main block: the exception is printed, exit(1).
GenMainExcept ==
    /\ gen_pc \in {"Invalid timestamp", "ValueError"}
    /\ gen_pc' = "exit1"
    /\ UNCHANGED <<contents, ORDER_ARTIST_FIRST, line_no, track_counter,
                   return_string, first_substring, minutes, seconds, out_file,
                   emitted>>
    /\ UNCHANGED <<match_vars, cue_vars, proc_vars>>

(***************************************************************************)
(* postprocess_cue_tracks.py: parse_cue.                                   *)
(***************************************************************************)
UpperChar(c) ==
    CASE c = "a" -> "A" [] c = "b" -> "B" [] c = "c" -> "C" [] c = "d" -> "D"
      [] c = "e" -> "E" [] c = "f" -> "F" [] c = "g" -> "G" [] c = "h" -> "H"
      [] c = "i" -> "I" [] c = "j" -> "J" [] c = "k" -> "K" [] c = "l" -> "L"
      [] c = "m" -> "M" [] c = "n" -> "N" [] c = "o" -> "O" [] c = "p" -> "P"
      [] c = "q" -> "Q" [] c = "r" -> "R" [] c = "s" -> "S" [] c = "t" -> "T"
      [] c = "u" -> "U" [] c = "v" -> "V" [] c = "w" -> "W" [] c = "x" -> "X"
      [] c = "y" -> "Y" [] c = "z" -> "Z" [] OTHER -> c

\* str.upper()
RECURSIVE Upper(_)
Upper(s) == IF s = "" THEN "" ELSE UpperChar(Ch(s, 1)) \o Upper(SubSeq(s, 2, Len(s)))

\* shlex.split(line): the shlex state machine in POSIX mode with
\* whitespace_split and no comment characters.  state is " " (between
\* tokens), "a" (in a word), a quote character, or "\\" (after an escape).
RECURSIVE ShlexRead(_, _, _, _, _, _, _)
ShlexRead(s, i, state, escapedstate, token, quoted, out) ==
    LET c == Ch(s, i)
        emit == IF token # "" \/ quoted THEN Append(out, token) ELSE out
    IN  IF i > Len(s) THEN
            IF state \in {"\"", "'"} THEN [ok |-> FALSE, exc |-> "ValueError"]
            ELSE IF state = "\\" THEN [ok |-> FALSE, exc |-> "ValueError"]
            ELSE [ok |-> TRUE, parts |-> emit]
        ELSE IF state \in {"\"", "'"} THEN
            IF c = state THEN ShlexRead(s, i + 1, "a", escapedstate, token, TRUE, out)
            ELSE IF c = "\\" /\ state = "\""
                 THEN ShlexRead(s, i + 1, "\\", state, token, TRUE, out)
            ELSE ShlexRead(s, i + 1, state, escapedstate, token \o c, TRUE, out)
        ELSE IF state = "\\" THEN
            LET kept == IF escapedstate \in {"\"", "'"} /\ c # "\\" /\ c # escapedstate
                        THEN token \o "\\" \o c ELSE token \o c
            IN  ShlexRead(s, i + 1, escapedstate, escapedstate, kept, quoted, out)
        ELSE \* state is " " or "a"
            IF c \in {" ", "\t", "\r", "\n"}
            THEN ShlexRead(s, i + 1, " ", escapedstate, "", FALSE, emit)
            ELSE IF c \in {"\"", "'"}
            THEN ShlexRead(s, i + 1, c, escapedstate, token, TRUE, out)
            ELSE IF c = "\\"
            THEN ShlexRead(s, i + 1, "\\", "a", token, quoted, out)
            ELSE ShlexRead(s, i + 1, "a", escapedstate, token \o c, quoted, out)

ShlexSplit(line) == ShlexRead(line, 1, " ", "a", "", FALSE, <<>>)

\* str.split(maxsplit=n) on whitespace.
RECURSIVE SplitWhitespace(_, _)
SplitWhitespace(s, maxsplit) ==
    LET t == LStrip(s)
        n == RunLen(t, 1, {c \in {Ch(t, k) : k \in 1..Len(t)} : ~IsSpace(c)})
    IN  IF t = "" THEN <<>>
        ELSE IF maxsplit = 0 THEN <<t>>
        ELSE <<SubSeq(t, 1, n)>> \o SplitWhitespace(SubSeq(t, n + 1, Len(t)), maxsplit - 1)

\* Line 61: parts, or the ValueError shlex raises.
CueParts(line) ==
    IF Contains(line, "\"") THEN ShlexSplit(line)
    ELSE [ok |-> TRUE, parts |-> SplitWhitespace(line, 2)]

\* line.partition(' ')[2].strip().strip('"')
FieldText(line) ==
    LET i == Find(line, " ", 1)
        rest == IF i = 0 THEN "" ELSE SubSeq(line, i + 1, Len(line))
    IN  StripQuotes(Strip(rest))

\* re.search(r'\"([^\"]+)\"', line): the leftmost quote that is followed by
\* at least one other character and then a quote; None when there is none.
QuotedName(line) ==
    LET opens == {i \in 1..Len(line) :
                    /\ Ch(line, i) = "\""
                    /\ Find(line, "\"", i + 1) > i + 1}
    IN  IF opens = {} THEN None
        ELSE Some(SubSeq(line, Min(opens) + 1, Find(line, "\"", Min(opens) + 1) - 1))

\* dict assignment rem[key] = value, a dict being a set of <<key, value>>.
DictSet(d, key, value) == {kv \in d : kv[1] # key} \cup {<<key, value>>}

NewTrack(num) == [number |-> num, TITLE |-> None, PERFORMER |-> None, INDEX |-> None]

\* A mutation of FieldOwnerIsAlbum: the album keeps owning the field after
\* a track was opened.
FieldOwnerAlwaysAlbum(cur) == TRUE

\* Lines 71 and 75: current_track is None.
FieldOwnerIsAlbum(cur) == cur = None

\* Lines 57-100: the loop body on one raw line, from the parser state
\* st = [album, tracks, current_track, exc]; exc names the exception that
\* left parse_cue, or is "" when none did.
parse_cue_line(st, raw) ==
    LET line == Strip(raw)
        cp   == CueParts(line)
        parts == cp.parts
        key  == Upper(parts[1])
        cur  == st.current_track
        raise(e) == [st EXCEPT !.exc = e]
    IN  IF line = "" THEN st
        ELSE IF ~cp.ok THEN raise(cp.exc)
        ELSE IF Len(parts) = 0 THEN raise("IndexError")
        ELSE IF key = "REM" THEN
            IF Len(parts) >= 3
            THEN [st EXCEPT !.album.REM = DictSet(@, parts[2], StripQuotes(parts[3]))]
            ELSE st
        ELSE IF key = "PERFORMER" /\ FieldOwnerIsAlbum(cur) THEN
            [st EXCEPT !.album.PERFORMER = Some(FieldText(line))]
        ELSE IF key = "TITLE" /\ FieldOwnerIsAlbum(cur) THEN
            [st EXCEPT !.album.TITLE = Some(FieldText(line))]
        ELSE IF key = "FILE" THEN
            IF QuotedName(line) # None
            THEN [st EXCEPT !.album.FILE = QuotedName(line)]
            ELSE IF Len(parts) < 2 THEN raise("IndexError")
            ELSE [st EXCEPT !.album.FILE = Some(StripQuotes(parts[2]))]
        ELSE IF key = "TRACK" THEN
            LET closed == IF cur # None THEN Append(st.tracks, cur[1]) ELSE st.tracks
            IN  IF Len(parts) < 2 THEN [st EXCEPT !.tracks = closed, !.exc = "IndexError"]
                ELSE IF ~IntOk(parts[2])
                THEN [st EXCEPT !.tracks = closed, !.exc = "ValueError"]
                ELSE [st EXCEPT !.tracks = closed,
                                !.current_track = Some(NewTrack(IntOf(parts[2])))]
        ELSE IF key = "PERFORMER" /\ cur # None THEN
            [st EXCEPT !.current_track = Some([cur[1] EXCEPT !.PERFORMER = Some(FieldText(line))])]
        ELSE IF key = "TITLE" /\ cur # None THEN
            [st EXCEPT !.current_track = Some([cur[1] EXCEPT !.TITLE = Some(FieldText(line))])]
        ELSE IF key = "INDEX" /\ cur # None THEN
            [st EXCEPT !.current_track = Some([cur[1] EXCEPT !.INDEX = Some(SubSeq(parts, 2, Len(parts)))])]
        ELSE st

\* for raw in f: the lines of the file's text (each ends at a line break;
\* text after the last line break is a line too).
FileLines(text) ==
    LET pieces == Split(text, "\n")
    IN  IF Last(pieces) = "" THEN SubSeq(pieces, 1, Len(pieces) - 1) ELSE pieces

\* Lines 55-100: one iteration of the loop over the file.
ParseCueLine ==
    /\ cue_pc = "loop"
    /\ cue_pos <= Len(cue_lines)
    /\ LET st == parse_cue_line([album |-> album, tracks |-> tracks,
                                 current_track |-> current_track, exc |-> ""],
                                cue_lines[cue_pos])
       IN  /\ album' = st.album
           /\ tracks' = st.tracks
           /\ current_track' = st.current_track
           /\ cue_pc' = IF st.exc = "" THEN "loop" ELSE st.exc
    /\ cue_pos' = cue_pos + 1
    /\ UNCHANGED <<cue_text, cue_lines>>
    /\ UNCHANGED <<match_vars, gen_vars, proc_vars>>

\* Lines 102-105: the open track is appended and the result returned.
ParseCueReturn ==
    /\ cue_pc = "loop"
    /\ cue_pos > Len(cue_lines)
    /\ tracks' = IF current_track # None THEN Append(tracks, current_track[1]) ELSE tracks
    /\ cue_pc' = "done"
    /\ UNCHANGED <<cue_text, cue_lines, cue_pos, album, current_track>>
    /\ UNCHANGED <<match_vars, gen_vars, proc_vars>>

\* The sheet the generator wrote is opened by parse_cue (lines 44-53).
ParseCueOpenGenerated ==
    /\ gen_pc = "written"
    /\ cue_pc = "idle"
    /\ cue_text' = out_file
    /\ cue_lines' = FileLines(out_file[1])
    /\ cue_pos' = 1
    /\ cue_pc' = "loop"
    /\ UNCHANGED <<album, tracks, current_track>>
    /\ UNCHANGED <<match_vars, gen_vars, proc_vars>>

(***************************************************************************)
(* The variables of a script that a specification does not run.            *)
(***************************************************************************)
MatchIdle ==
    /\ candidates = <<>> /\ track_num = 1 /\ found = NoFile
    /\ prev_found = NoFile /\ match_pc = "idle"

GenIdle ==
    /\ contents = <<>> /\ ORDER_ARTIST_FIRST = TRUE /\ line_no = 0
    /\ track_counter = 1 /\ return_string = "" /\ first_substring = ""
    /\ minutes = 0 /\ seconds = 0 /\ gen_pc = "idle" /\ out_file = None
    /\ emitted = <<>>

CueIdle ==
    /\ cue_text = None /\ cue_lines = <<>> /\ cue_pos = 0
    /\ album = [PERFORMER |-> None, TITLE |-> None, REM |-> {}, FILE |-> None]
    /\ tracks = <<>> /\ current_track = None /\ cue_pc = "idle"

ProcIdle ==
    /\ meta_tracks = <<>> /\ dir_listing = <<>> /\ alt_listing = <<>>
    /\ dry_run = FALSE /\ t_idx = 0 /\ resolved = <<>> /\ ffmpeg_log = <<>>
    /\ visited = <<>> /\ proc_pc = "idle"

(***************************************************************************)
(* SpecGen: cue_generator.py on every tracklist of at most MaxLines lines, *)
(* in both field orders; the sheet it writes is then read by parse_cue.    *)
(***************************************************************************)
\* Lines of a tracklist file: a title line, a blank line, a REM directive,
\* track entries with 2 and 3 timestamp fields, an entry without " - ", an
\* entry whose timestamp has one field, an entry quoting a word.
GenLines ==
    {"# Title: Demo", "", "REM Genre Rock", "00:00 Artist A - Track One",
     "1:03:15 B - Two", "00:75 D", "5 E - F", "00:10 Say \"Hi\" - G"}

GenStart(lines) ==
    /\ contents = lines
    /\ ORDER_ARTIST_FIRST \in BOOLEAN
    /\ line_no = 1
    /\ track_counter = 1
    /\ return_string = ""
    /\ first_substring = ""
    /\ minutes = 0
    /\ seconds = 0
    /\ gen_pc = "loop"
    /\ out_file = None
    /\ emitted = <<>>

InitGen ==
    /\ \E lines \in SeqsUpTo(GenLines, MaxLines) : GenStart(lines)
    /\ MatchIdle /\ CueIdle /\ ProcIdle

NextGen ==
    \/ GenTitleLine
    \/ GenBlankLine
    \/ GenTrackLine
    \/ GenTrackLineRaises
    \/ GenOtherLine
    \/ GenReturnAndWrite
    \/ GenMainExcept
    \/ ParseCueOpenGenerated
    \/ ParseCueLine
    \/ ParseCueReturn

SpecGen == InitGen /\ [][NextGen]_vars

(***************************************************************************)
(* SpecTs: cue_generator.py on a tracklist whose last line is a track      *)
(* entry with a timestamp of 1 to MaxFields colon-separated fields, after  *)
(* at most one earlier line.                                               *)
(***************************************************************************)
FieldStrs == {"", "1", "07", "75"}

\* The number a field string denotes.
FieldValue(f) == CASE f = "1" -> 1 [] f = "07" -> 7 [] f = "75" -> 75

TsFieldSeqs == SeqsUpTo(FieldStrs, MaxFields) \ {<<>>}

\* ":".join(fields)
RECURSIVE JoinColon(_)
JoinColon(fields) ==
    IF Len(fields) = 1 THEN fields[1]
    ELSE fields[1] \o ":" \o JoinColon(Tail(fields))

InitTs ==
    /\ \E before \in SeqsUpTo(GenLines, 1), fields \in TsFieldSeqs :
          GenStart(Append(before, JoinColon(fields) \o " A - B"))
    /\ MatchIdle /\ CueIdle /\ ProcIdle

SpecTs == InitTs /\ [][NextGen]_vars

(***************************************************************************)
(* SpecCue: parse_cue on every sheet of at most MaxCueLines lines.         *)
(***************************************************************************)
CueLines ==
    {"TITLE \"Album\"", "PERFORMER Band", "  TRACK 01 AUDIO", "TRACK 7 AUDIO",
     "    title \"Song\"", "TRACK", "TRACK xx AUDIO", "FILE",
     "FILE \"a.wav\" WAVE", "REM GENRE \"Rock\"", "TITLE \"open",
     "INDEX 01 00:00", "FOO bar", ""}

\* "\n".join(lines) + "\n"
RECURSIVE JoinLines(_)
JoinLines(lines) ==
    IF lines = <<>> THEN "" ELSE Head(lines) \o "\n" \o JoinLines(Tail(lines))

InitCue ==
    /\ \E lines \in SeqsUpTo(CueLines, MaxCueLines) :
          /\ cue_text = Some(JoinLines(lines))
          /\ cue_lines = FileLines(JoinLines(lines))
    /\ cue_pos = 1
    /\ album = [PERFORMER |-> None, TITLE |-> None, REM |-> {}, FILE |-> None]
    /\ tracks = <<>>
    /\ current_track = None
    /\ cue_pc = "loop"
    /\ MatchIdle /\ GenIdle /\ ProcIdle

NextCue == ParseCueLine \/ ParseCueReturn

SpecCue == InitCue /\ [][NextCue]_vars

(***************************************************************************)
(* SpecMatch: find_track_file on every listing of at most MaxCands files   *)
(* and every track number up to MaxTrackNum, then once more on the same    *)
(* directory enumerated in another order.                                  *)
(***************************************************************************)
InitMatch ==
    /\ candidates \in Listings(MaxCands)
    /\ track_num \in 1..MaxTrackNum
    /\ found = NoFile
    /\ prev_found = NoFile
    /\ match_pc = "start"
    /\ GenIdle /\ CueIdle /\ ProcIdle

FindTrackFile ==
    /\ match_pc = "start"
    /\ found' = find_track_file(candidates, track_num)
    /\ match_pc' = "done"
    /\ UNCHANGED <<candidates, track_num, prev_found>>
    /\ UNCHANGED <<gen_vars, cue_vars, proc_vars>>

\* A second run over the same directory, which glob enumerates in any order.
FindTrackFileAgain ==
    /\ match_pc = "done"
    /\ \E listing \in Reorderings(candidates) :
          /\ candidates' = listing
          /\ found' = find_track_file(listing, track_num)
    /\ prev_found' = found
    /\ match_pc' = "rescanned"
    /\ UNCHANGED track_num
    /\ UNCHANGED <<gen_vars, cue_vars, proc_vars>>

NextMatch == FindTrackFile \/ FindTrackFileAgain

SpecMatch == InitMatch /\ [][NextMatch]_vars

C2_OrderIndependent == match_pc = "rescanned" => found = prev_found

(***************************************************************************)
(* postprocess_cue_tracks.py: process, on a parsed sheet.  meta_tracks     *)
(* holds the number of each track of meta['tracks'], dir_listing what      *)
(* tracks_dir.glob(pattern) yields and alt_listing what the glob of        *)
(* <cue directory>/tracks yields.  subprocess.run either returns or raises *)
(* CalledProcessError (ffmpeg exits non-zero).  The tags and the output    *)
(* name (lines 194-195, 213-238) do not decide what the loop does next and *)
(* are left out of the logged command.                                     *)
(***************************************************************************)
\* The track numbers a sheet of SpecProc declares (a sheet may repeat one).
SheetNumbers == {1, 2}

ProcFiles == {"only.wav", "01 - b.wav", "track02.wav", "2_c.wav"}

\* Lines 197-204: the file of track number tn, with the directory it was
\* found in, or None.
ResolveTrack(tn) ==
    LET first == find_track_file(dir_listing, tn)
        alt   == find_track_file(alt_listing, tn)
    IN  IF first # NoFile THEN Some(<<"tracks_dir", first>>)
        ELSE IF alt # NoFile THEN Some(<<"cue_dir/tracks", alt>>)
        ELSE None

\* A mutation of AfterCopyFailure: the failure of the first ffmpeg run
\* leaves the except block without the fallback run.
AfterCopyFailureSkips == "next"

\* Lines 247-257: where a CalledProcessError of the first run leads.
AfterCopyFailure == "fallback"

InTrackLoop == proc_pc = "next" /\ t_idx <= Len(meta_tracks)

InitProc ==
    /\ meta_tracks \in SeqsUpTo(SheetNumbers, MaxTracks)
    /\ dir_listing \in {q \in SeqsUpTo(ProcFiles, MaxCands) : Distinct(q)}
    /\ alt_listing \in SeqsUpTo(ProcFiles, 1)
    /\ dry_run \in BOOLEAN
    /\ t_idx = 1
    /\ resolved = <<>>
    /\ ffmpeg_log = <<>>
    /\ visited = <<>>
    /\ proc_pc = "next"
    /\ MatchIdle /\ GenIdle /\ CueIdle

\* Lines 193-208: no file for the track; WARN and continue.
ProcTrackUnresolved ==
    /\ InTrackLoop
    /\ ResolveTrack(meta_tracks[t_idx]) = None
    /\ resolved' = Append(resolved, None)
    /\ visited' = Append(visited, t_idx)
    /\ t_idx' = t_idx + 1
    /\ UNCHANGED <<meta_tracks, dir_listing, alt_listing, dry_run, ffmpeg_log, proc_pc>>
    /\ UNCHANGED <<match_vars, gen_vars, cue_vars>>

\* Lines 193-240 with --dry-run: the file is reported and the loop continues.
ProcTrackDryRun ==
    /\ InTrackLoop
    /\ ResolveTrack(meta_tracks[t_idx]) # None
    /\ dry_run
    /\ resolved' = Append(resolved, ResolveTrack(meta_tracks[t_idx]))
    /\ visited' = Append(visited, t_idx)
    /\ t_idx' = t_idx + 1
    /\ UNCHANGED <<meta_tracks, dir_listing, alt_listing, dry_run, ffmpeg_log, proc_pc>>
    /\ UNCHANGED <<match_vars, gen_vars, cue_vars>>

\* Lines 193-244: the file is resolved and the copy command built.
ProcTrackResolved ==
    /\ InTrackLoop
    /\ ResolveTrack(meta_tracks[t_idx]) # None
    /\ ~dry_run
    /\ resolved' = Append(resolved, ResolveTrack(meta_tracks[t_idx]))
    /\ visited' = Append(visited, t_idx)
    /\ proc_pc' = "copy"
    /\ UNCHANGED <<meta_tracks, dir_listing, alt_listing, dry_run, t_idx, ffmpeg_log>>
    /\ UNCHANGED <<match_vars, gen_vars, cue_vars>>

FfmpegRun(codec, ok) ==
    [track |-> t_idx, input |-> resolved[t_idx][1], codec |-> codec, ok |-> ok]

\* Lines 246 and 266-272: ffmpeg -c copy succeeded.
ProcCopyOk ==
    /\ proc_pc = "copy"
    /\ ffmpeg_log' = Append(ffmpeg_log, FfmpegRun("copy", TRUE))
    /\ t_idx' = t_idx + 1
    /\ proc_pc' = "next"
    /\ UNCHANGED <<meta_tracks, dir_listing, alt_listing, dry_run, resolved, visited>>
    /\ UNCHANGED <<match_vars, gen_vars, cue_vars>>

\* Lines 246-257: ffmpeg -c copy raised CalledProcessError.
ProcCopyFails ==
    /\ proc_pc = "copy"
    /\ ffmpeg_log' = Append(ffmpeg_log, FfmpegRun("copy", FALSE))
    /\ proc_pc' = AfterCopyFailure
    /\ t_idx' = IF AfterCopyFailure = "next" THEN t_idx + 1 ELSE t_idx
    /\ UNCHANGED <<meta_tracks, dir_listing, alt_listing, dry_run, resolved, visited>>
    /\ UNCHANGED <<match_vars, gen_vars, cue_vars>>

\* Lines 258-259 and 266-272: the ffmpeg -c:a alac fallback succeeded.
ProcFallbackOk ==
    /\ proc_pc = "fallback"
    /\ ffmpeg_log' = Append(ffmpeg_log, FfmpegRun("alac", TRUE))
    /\ t_idx' = t_idx + 1
    /\ proc_pc' = "next"
    /\ UNCHANGED <<meta_tracks, dir_listing, alt_listing, dry_run, resolved, visited>>
    /\ UNCHANGED <<match_vars, gen_vars, cue_vars>>

\* Lines 258-263: the fallback raised CalledProcessError too; the track is
\* skipped.
ProcFallbackFails ==
    /\ proc_pc = "fallback"
    /\ ffmpeg_log' = Append(ffmpeg_log, FfmpegRun("alac", FALSE))
    /\ t_idx' = t_idx + 1
    /\ proc_pc' = "next"
    /\ UNCHANGED <<meta_tracks, dir_listing, alt_listing, dry_run, resolved, visited>>
    /\ UNCHANGED <<match_vars, gen_vars, cue_vars>>

\* Line 274: the loop is over.
ProcAllDone ==
    /\ proc_pc = "next"
    /\ t_idx > Len(meta_tracks)
    /\ proc_pc' = "done"
    /\ UNCHANGED <<meta_tracks, dir_listing, alt_listing, dry_run, t_idx,
                   resolved, ffmpeg_log, visited>>
    /\ UNCHANGED <<match_vars, gen_vars, cue_vars>>

NextProc ==
    \/ ProcTrackUnresolved
    \/ ProcTrackDryRun
    \/ ProcTrackResolved
    \/ ProcCopyOk
    \/ ProcCopyFails
    \/ ProcFallbackOk
    \/ ProcFallbackFails
    \/ ProcAllDone

SpecProc == InitProc /\ [][NextProc]_vars

\* The ffmpeg runs logged for track k of the sheet.
RunsOf(k) == SelectSeq(ffmpeg_log, LAMBDA r : r.track = k)

\* Track k has left the loop body.
Finished(k) == k < t_idx

ViaFallback(k) ==
    /\ resolved[k] # None
    /\ ~StartsWithNumber(resolved[k][1][2], meta_tracks[k])
    /\ ~HasPadded(resolved[k][1][2], meta_tracks[k])

\* C9: the singleton fallback gives its file to at most one track of a run:
\* no two tracks of the sheet, with different numbers, are resolved to the
\* same file through it.
C9_FallbackClaimsOnce ==
    \A j, k \in 1..Len(resolved) :
        (meta_tracks[j] # meta_tracks[k] /\ ViaFallback(j) /\ ViaFallback(k))
            => resolved[j] # resolved[k]

(***************************************************************************)
(* Reading a generated sheet back, for the properties of its text.         *)
(***************************************************************************)
\* The numbers on the "  TRACK NN AUDIO" lines of a sheet text, in order.
TrackNumbersIn(text) ==
    LET trackLines == SelectSeq(FileLines(text), LAMBDA l : StartsWith(l, "  TRACK "))
    IN  [k \in 1..Len(trackLines) |-> IntOf(Split(trackLines[k], " ")[4])]

\* The SS fields of the "    INDEX 01 MM:SS" lines of a sheet text.
IndexSecondsIn(text) ==
    LET indexLines == SelectSeq(FileLines(text), LAMBDA l : StartsWith(l, "    INDEX 01 "))
    IN  {IntOf(Last(Split(l, ":"))) : l \in {indexLines[k] : k \in 1..Len(indexLines)}}

\* Line k of the tracklist is a track entry: not a title line, not blank,
\* and its first token is timestamp-like.
IsTrackEntry(line) ==
    ~IsTitleLine(line) /\ line # "" /\ is_timestamp(FirstSubstring(line))

\* C3: the TRACK blocks of the sheet are numbered 1, 2, ..., N in order, the
\* counter is always one past the blocks emitted so far, and when the parse
\* succeeds N is the number of track-entry lines of the input, whatever
\* title, blank or ignored lines lie between them.  (Stated on the states of
\* the generator: parse_cue, run afterwards, leaves its variables alone.)
C3_ContiguousNumbering ==
    cue_pc = "idle" =>
        LET nums == TrackNumbersIn(return_string)
        IN  /\ \A k \in 1..Len(nums) : nums[k] = k
            /\ track_counter = Len(nums) + 1
            /\ gen_pc = "written" =>
                  Len(nums) = Cardinality({k \in 1..Len(contents) : IsTrackEntry(contents[k])})

\* Two track blocks were written for a tracklist that has a line of another
\* kind between its two track entries.
C3_Witness ==
    /\ gen_pc = "written"
    /\ cue_pc = "idle"
    /\ Len(contents) = 3
    /\ IsTrackEntry(contents[1]) /\ ~IsTrackEntry(contents[2]) /\ IsTrackEntry(contents[3])
    /\ TrackNumbersIn(out_file[1]) = <<1, 2>>

\* The sheet document the serializer was given.
EmittedTitles == SelectSeq(emitted, LAMBDA e : e.kind = "TITLE")
EmittedTracks == SelectSeq(emitted, LAMBDA e : e.kind = "TRACK")

\* The INDEX tokens parse_cue kept resolve to the given minutes and seconds.
IndexResolvesTo(index, mins, secs) ==
    /\ index # None
    /\ Len(index[1]) = 2
    /\ get_min_sec_from_timestamp(index[1][2]) = [ok |-> TRUE, min |-> mins, sec |-> secs]

\* C6: the sheet written by the generator, re-parsed by parse_cue, yields
\* the same album title and, track by track, the same number, TITLE,
\* PERFORMER and start time.
C6_RoundTrip ==
    (gen_pc = "written" /\ cue_pc \in {"done", "ValueError", "IndexError"}) =>
        /\ cue_pc = "done"
        /\ Len(EmittedTitles) = 1 => album.TITLE = Some(EmittedTitles[1].title)
        /\ Len(tracks) = Len(EmittedTracks)
        /\ \A k \in 1..Len(tracks) :
              /\ tracks[k].number = EmittedTracks[k].number
              /\ tracks[k].TITLE = Some(EmittedTracks[k].title)
              /\ tracks[k].PERFORMER = Some(EmittedTracks[k].performer)
              /\ IndexResolvesTo(tracks[k].INDEX, EmittedTracks[k].minutes,
                                 EmittedTracks[k].seconds)

\* C8: no INDEX line of the sheet has seconds outside 00..59, and the
\* accepted timestamp has minutes >= 0 and 0 <= seconds <= 59.
C8_SecondsInRange ==
    /\ minutes >= 0
    /\ seconds \in 0..59
    /\ \A ss \in IndexSecondsIn(return_string) : ss \in 0..59

Aborted == gen_pc \in {"Invalid timestamp", "ValueError", "exit1"}

\* The fields each generated timestamp token was joined from.
TsFieldsOf == [tok \in {JoinColon(f) : f \in TsFieldSeqs} |->
                  CHOOSE f \in TsFieldSeqs : JoinColon(f) = tok]

\* The line parse_input_file handled last.
LastTaken == IF Aborted THEN line_no ELSE line_no - 1

\* C7: on the token M:S the minutes and seconds are (M, S); on H:M:S they
\* are (H*60+M, S); on a token with any other number of fields the parse
\* fails with the invalid-timestamp error; and a failed parse writes no
\* sheet, whatever lines came before.
C7_TimestampFields ==
    /\ (/\ LastTaken \in 1..Len(contents)
        /\ IsTrackEntry(contents[LastTaken])
        /\ FirstSubstring(contents[LastTaken]) \in DOMAIN TsFieldsOf) =>
          LET f == TsFieldsOf[FirstSubstring(contents[LastTaken])]
          IN  /\ (Len(f) = 2 /\ f[1] # "" /\ f[2] # "") =>
                    /\ ~Aborted
                    /\ minutes = FieldValue(f[1])
                    /\ seconds = FieldValue(f[2])
              /\ (Len(f) = 3 /\ f[1] # "" /\ f[2] # "" /\ f[3] # "") =>
                    /\ ~Aborted
                    /\ minutes = FieldValue(f[1]) * 60 + FieldValue(f[2])
                    /\ seconds = FieldValue(f[3])
              /\ Len(f) \notin {2, 3} => gen_pc \in {"Invalid timestamp", "exit1"}
    /\ Aborted => (out_file = None /\ cue_pc = "idle")

\* A 4-field timestamp after a valid track entry: the run ended with
\* exit(1) and no sheet, although a track block had been built.
C7_Witness ==
    /\ gen_pc = "exit1"
    /\ Len(contents) = 2
    /\ Len(Split(first_substring, ":")) = 4
    /\ track_counter = 2
    /\ return_string # ""
    /\ out_file = None

\* C5: parse_cue never raises: no line makes it end in an exception.
C5_NeverRaises == cue_pc \notin {"ValueError", "IndexError"}

\* The parts of a sheet line, and the numbers its TRACK lines declare.
IsTrackLine(raw) ==
    LET cp == CueParts(Strip(raw))
    IN  Strip(raw) # "" /\ cp.ok /\ Len(cp.parts) >= 1 /\ Upper(cp.parts[1]) = "TRACK"

DeclaredNumbers(lines) ==
    LET trackLines == SelectSeq(lines, IsTrackLine)
    IN  [k \in 1..Len(trackLines) |-> IntOf(CueParts(Strip(trackLines[k])).parts[2])]

IsFieldLine(raw, field) ==
    LET cp == CueParts(Strip(raw))
    IN  Strip(raw) # "" /\ cp.ok /\ Len(cp.parts) >= 1 /\ Upper(cp.parts[1]) = field

\* One step of parse_cue on a PERFORMER or TITLE line has exactly one owner:
\* the album before any TRACK line, the open track after one.
C10_OneOwner ==
    \A field \in {"TITLE", "PERFORMER"} :
        (cue_pc = "loop" /\ cue_pos <= Len(cue_lines)
           /\ IsFieldLine(cue_lines[cue_pos], field)) =>
            IF current_track = None
            THEN /\ album'[field] # None
                 /\ current_track' = None
                 /\ tracks' = tracks
            ELSE /\ album' = album
                 /\ tracks' = tracks
                 /\ current_track' # None
                 /\ current_track'[1][field] # None
                 /\ current_track'[1].number = current_track[1].number

\* C10: a PERFORMER/TITLE line has one owner; the album's PERFORMER and
\* TITLE never change once a TRACK line was consumed; a track already
\* appended is never modified; and the result holds one track per TRACK
\* line, in line order, with the declared number.
C10_FrameOfFields ==
    /\ [][C10_OneOwner]_vars
    /\ [][current_track # None =>
            (album'.TITLE = album.TITLE /\ album'.PERFORMER = album.PERFORMER)]_vars
    /\ [][Len(tracks') >= Len(tracks) /\ SubSeq(tracks', 1, Len(tracks)) = tracks]_vars
    /\ [][cue_pc' = "done" =>
            [k \in 1..Len(tracks') |-> tracks'[k].number] = DeclaredNumbers(cue_lines)]_vars

\* An album title, then a track with its own title: both kept apart.
C10_Witness ==
    /\ cue_pc = "done"
    /\ album.TITLE = Some("Album")
    /\ Len(tracks) = 1
    /\ tracks[1].TITLE = Some("Song")

====
